---- MODULE Spec2Model ----
(***************************************************************************)
(* Model of the US Treasury yield curve viewer backend                     *)
(* (src/backend/index.js, lines 1-198, and scheduler.js, kept as           *)
(* src/unnamed/part_001).                                                  *)
(*                                                                         *)
(* JavaScript strings are modelled as sequences of one-character strings,  *)
(* so that the regular expression of extractMaturities and parseFloat are  *)
(* computed on the characters.  A nullable JavaScript value is modelled as *)
(* a sequence of length 0 (null) or 1 (the value).                         *)
(***************************************************************************)
EXTENDS Integers, Sequences, FiniteSets, Bags

VARIABLES
    cachedData,     \* index.js:69  null, or the installed array of rows
    cachedDates,    \* index.js:70  null, or the installed array of date labels
    phase,          \* position of the startup IIFE: "starting", "serving", "exited"
    listening,      \* app.listen has been called (index.js:191)
    timerActive,    \* setInterval has been called (scheduler.js:14)
    runs,           \* the bag of calls of fetchAndParseCSV awaiting Promise.all
    lastTick,       \* last line the scheduler's tick logged: "none", "refreshed", "error"
    response,       \* the last HTTP response sent by a query handler
    clock,          \* the month new Date() is in (index.js:12), for MonthsSpec
    monthsCall,     \* null, or the last call of getAllMonths in MonthsSpec:
                    \* the value new Date() gave it and the array it returned
    dateTrip        \* null, or in PickerSpec a date label of /api/dates on its
                    \* way through the front end: the label, the picker's date
                    \* made of it and the date parameter sent back

vars == <<cachedData, cachedDates, phase, listening, timerActive, runs, lastTick, response,
          clock, monthsCall, dateTrip>>

----------------------------------------------------------------------------
(* Bounds of the model *)

\* The wall clock read by getAllMonths ranges from December 2024 (index -1)
\* to the month with this index, counted from January 2025 (index 0).
MaxNowIndex == 1

\* Calls of fetchAndParseCSV that may be awaiting their fetches at once.
MaxInFlight == 2

\* In MonthsSpec the wall clock ranges from January 2024 (index -12) to the
\* month with this index, counted from January 2025 (index 0).
MaxClockIndex == 26

\* In PickerSpec the date labels have a year from 2025 to this one.
MaxLabelYear == 2026

----------------------------------------------------------------------------
(* Nullable values *)

Null == <<>>

Some(v) == <<v>>

IsNull(x) == x = <<>>

Val(x) == x[1]

----------------------------------------------------------------------------
(* Strings and rows *)

DateKey == <<"D", "a", "t", "e">>

Key1Mo == <<"1", " ", "M", "o">>

Key15Month == <<"1", ".", "5", " ", "M", "o", "n", "t", "h">>

Key1YR == <<"1", " ", "Y", "R">>

Key2YR == <<"2", " ", "Y", "R">>

Date1 == <<"0", "1", "/", "0", "2", "/", "2", "0", "2", "5">>

Date2 == <<"0", "2", "/", "0", "3", "/", "2", "0", "2", "5">>

\* A date label that no row of the upstream files carries.
Date9 == <<"1", "2", "/", "2", "5", "/", "2", "0", "2", "5">>

EmptyString == <<>>

\* A row is the ordered mapping csv-parse builds with columns: true:
\* a sequence of <<column name, cell>> pairs in header order.
Row1 == << <<DateKey, Date1>>,
           <<Key1Mo, <<"4", ".", "1", "0">> >>,
           <<Key1YR, <<"4", ".", "2", "0">> >> >>

\* The rows of a file with another header (a 1.5 Month column, a 2 YR column
\* and no 1 YR column); the 1 Mo cell of Row2 is empty.
Row2 == << <<DateKey, Date2>>,
           <<Key1Mo, EmptyString>>,
           <<Key15Month, <<"4", ".", "3">> >>,
           <<Key2YR, <<"4", ".", "5">> >> >>

\* A row of that file that carries the date label of Row1.
Row3 == << <<DateKey, Date1>>,
           <<Key1Mo, <<"4", ".", "1", "5">> >>,
           <<Key15Month, <<"4", ".", "3", "5">> >>,
           <<Key2YR, EmptyString>> >>

\* The row objects csv-parse can build.  An array of rows holds references
\* to row objects: a reference is the row's index in Rows.
Rows == <<Row1, Row2, Row3>>

Row(ref) == Rows[ref]

\* What parse(csvText) can return for one month's file: no row (a header
\* only), or one of two files.
MonthFiles == { <<>>, <<1>>, <<2, 3>> }

\* What the promise chain of one month meets (index.js:76-84): fetch rejects,
\* res.ok is false, parse throws, or parse returns the records.
FetchOutcomes ==
    { [kind |-> "network_error", records |-> <<>>],
      [kind |-> "bad_status", records |-> <<>>],
      [kind |-> "unparsable", records |-> <<>>] }
    \cup { [kind |-> "ok", records |-> f] : f \in MonthFiles }

\* Object.keys(row): the column names in insertion order.
Keys(row) == [k \in 1..Len(row) |-> row[k][1]]

\* row[key], for a key the row has.
Get(row, key) == row[CHOOSE k \in 1..Len(row) : row[k][1] = key][2]

----------------------------------------------------------------------------
(* getAllMonths, index.js:10-22 *)

StartYear == 2025

StartMonth == 0

DigitChars == <<"0", "1", "2", "3", "4", "5", "6", "7", "8", "9">>

\* Number.prototype.toString for a natural number.
RECURSIVE NumberToString(_)
NumberToString(n) ==
    IF n < 10 THEN <<DigitChars[n + 1]>>
    ELSE NumberToString(n \div 10) \o <<DigitChars[(n % 10) + 1]>>

\* String.prototype.padStart(2, '0').
PadStart2(s) == IF Len(s) < 2 THEN <<"0">> \o s ELSE s

\* `${y}${(m + 1).toString().padStart(2, '0')}`
MonthToken(y, m) == NumberToString(y) \o PadStart2(NumberToString(m + 1))

\* A variant of MonthsFrom that wraps the month one step early
\* (m >= 11 before the increment): no year has a December.
RECURSIVE MonthsFromWrapsEarly(_, _, _)
MonthsFromWrapsEarly(y, m, now) ==
    IF (y < now.year) \/ (y = now.year /\ m <= now.month)
    THEN <<MonthToken(y, m)>>
         \o (IF m + 1 >= 11 THEN MonthsFromWrapsEarly(y + 1, 0, now)
             ELSE MonthsFromWrapsEarly(y, m + 1, now))
    ELSE <<>>

\* The while loop of getAllMonths from (y, m); now.month is getMonth(), 0..11.
RECURSIVE MonthsFrom(_, _, _)
MonthsFrom(y, m, now) ==
    IF (y < now.year) \/ (y = now.year /\ m <= now.month)
    THEN <<MonthToken(y, m)>>
         \o (IF m + 1 > 11 THEN MonthsFrom(y + 1, 0, now) ELSE MonthsFrom(y, m + 1, now))
    ELSE <<>>

getAllMonths(now) == MonthsFrom(StartYear, StartMonth, now)

\* The month with index k, counted from January 2025 (index 0), as
\* getFullYear() and getMonth() give it.
DateAt(k) == [year |-> StartYear + (k \div 12), month |-> k % 12]

\* The values new Date() takes in the model.
NowRange ==
    { [year |-> StartYear + (k \div 12), month |-> k % 12] : k \in -1..MaxNowIndex }

----------------------------------------------------------------------------
(* fetchAndParseCSV, index.js:72-98 *)

\* fetchAndParseCSV up to its await: one pending fetch per month token.
\* slots[i] is null while the promise of month i is pending and holds its
\* value once settled.  Two fields keep the history of the call and are read
\* by no action: settled lists, in the order they happened, which month's
\* promise chain ended, whether its .catch handler ran (index.js:85-88) and
\* with which records; before holds the caches as they were at the call.
\* force is the argument of the call (index.js:72): true from the startup
\* path and the scheduler, the default false from a handler.
fetchAndParseCSV(owner, now, force) ==
    LET months == getAllMonths(now)
    IN  [owner   |-> owner,
         force   |-> force,
         months  |-> months,
         slots   |-> [i \in 1..Len(months) |-> Null],
         settled |-> <<>>,
         before  |-> <<cachedData, cachedDates>>]

\* The end of one month's promise chain, as the history keeps it.
Settlement(i, outcome) ==
    [month |-> i,
     failed |-> outcome.kind # "ok",
     records |-> IF outcome.kind = "ok" THEN outcome.records ELSE <<>>]

\* The value the promise of one month settles to: the parsed records, or the
\* [] that .catch returns.
MonthRecords(outcome) ==
    IF outcome.kind = "ok" THEN outcome.records ELSE <<>>

\* A variant of SettleSlot that joins by completion time: the value is pushed
\* at the first index still free.
SettleSlotByArrival(slots, i, outcome) ==
    [slots EXCEPT ![CHOOSE j \in 1..Len(slots) :
                       /\ IsNull(slots[j])
                       /\ \A h \in 1..(j - 1) : ~IsNull(slots[h])]
                  = Some(MonthRecords(outcome))]

\* A variant of SettleSlot without the per-month .catch: a failed month
\* rejects Promise.all and the rows of every month are lost.
SettleSlotAbortOnFailure(slots, i, outcome) ==
    IF outcome.kind = "ok"
    THEN [slots EXCEPT ![i] = Some(MonthRecords(outcome))]
    ELSE [j \in 1..Len(slots) |-> Some(<<>>)]

\* Promise.all keeps each value at the index of its promise.
SettleSlot(slots, i, outcome) ==
    [slots EXCEPT ![i] = Some(MonthRecords(outcome))]

AllSettled(run) == \A i \in 1..Len(run.slots) : ~IsNull(run.slots[i])

\* A variant of Flat that concatenates from the last index to the first.
RECURSIVE FlatReversed(_)
FlatReversed(arr) ==
    IF arr = <<>> THEN <<>> ELSE FlatReversed(Tail(arr)) \o Head(arr)

\* allRecordsArr.flat(): one level of flattening, in index order.
RECURSIVE Flat(_)
Flat(arr) ==
    IF arr = <<>> THEN <<>> ELSE Head(arr) \o Flat(Tail(arr))

\* A variant of Aggregate without the check of index.js:93-95.
AggregateNoEmptyCheck(run) ==
    [threw |-> FALSE,
     records |-> Flat([i \in 1..Len(run.slots) |-> Val(run.slots[i])])]

\* A variant of Aggregate that honours `force`: a call that is not forced
\* returns the installed dataset when there is one.
AggregateCachedUnlessForced(run) ==
    LET allRecords == Flat([i \in 1..Len(run.slots) |-> Val(run.slots[i])])
    IN  IF ~run.force /\ ~IsNull(cachedData)
        THEN [threw |-> FALSE, records |-> Val(cachedData)]
        ELSE IF Len(allRecords) = 0
        THEN [threw |-> TRUE, records |-> <<>>]
        ELSE [threw |-> FALSE, records |-> allRecords]

\* The outcome of fetchAndParseCSV once Promise.all has resolved:
\* the throw of index.js:93-95 or the return of index.js:97.
Aggregate(run) ==
    LET allRecords == Flat([i \in 1..Len(run.slots) |-> Val(run.slots[i])])
    IN  IF Len(allRecords) = 0
        THEN [threw |-> TRUE, records |-> <<>>]
        ELSE [threw |-> FALSE, records |-> allRecords]

----------------------------------------------------------------------------
(* extractDates and extractMaturities, index.js:101-110 *)

\* A variant of Dedup without the Set: every label, repeated or not.
DedupKeepsAll(labels, seen) == labels

\* Array.from(new Set(labels)): first occurrences, in order.
RECURSIVE Dedup(_, _)
Dedup(labels, seen) ==
    IF labels = <<>> THEN <<>>
    ELSE IF Head(labels) \in seen THEN Dedup(Tail(labels), seen)
    ELSE <<Head(labels)>> \o Dedup(Tail(labels), seen \cup {Head(labels)})

\* r['Date'] of each row object.
DateOf == [ref \in 1..Len(Rows) |-> Get(Row(ref), DateKey)]

extractDates(records) ==
    Dedup([k \in 1..Len(records) |-> DateOf[records[k]]], {})

IsDigit(c) == c \in {"0", "1", "2", "3", "4", "5", "6", "7", "8", "9"}

IsSpace(c) == c \in {" ", "\t"}

\* (Mo|YR) under the i flag, at positions p and p + 1 of key.
IsUnitAt(key, p) ==
    /\ p + 1 <= Len(key)
    /\ \/ key[p] \in {"M", "m"} /\ key[p + 1] \in {"O", "o"}
       \/ key[p] \in {"Y", "y"} /\ key[p + 1] \in {"R", "r"}

\* /\d+\s*(Mo|YR)/i.test(key): unanchored; digits i..j, spaces j+1..p-1, unit at p.
MatchesMaturity(key) ==
    \E i \in 1..Len(key) : \E j \in i..Len(key) : \E p \in (j + 1)..Len(key) :
        /\ \A q \in i..j : IsDigit(key[q])
        /\ \A q \in (j + 1)..(p - 1) : IsSpace(key[q])
        /\ IsUnitAt(key, p)

\* Array.prototype.filter.
RECURSIVE FilterKeys(_)
FilterKeys(keys) ==
    IF keys = <<>> THEN <<>>
    ELSE IF MatchesMaturity(Head(keys)) THEN <<Head(keys)>> \o FilterKeys(Tail(keys))
    ELSE FilterKeys(Tail(keys))

\* Object.keys(sample).filter(...) of each row object.
MaturityKeysOf == [ref \in 1..Len(Rows) |-> FilterKeys(Keys(Row(ref)))]

extractMaturities(records) == MaturityKeysOf[records[1]]

----------------------------------------------------------------------------
(* parseFloat and res.json, index.js:155-157 *)

DigitVal(c) == CHOOSE d \in 0..9 : DigitChars[d + 1] = c

\* The first position from p on that holds no digit.
RECURSIVE DigitRunEnd(_, _)
DigitRunEnd(s, p) ==
    IF p <= Len(s) /\ IsDigit(s[p]) THEN DigitRunEnd(s, p + 1) ELSE p

\* The value of the digits s[a..b-1], read after the value acc.
RECURSIVE DigitsValue(_, _, _, _)
DigitsValue(s, a, b, acc) ==
    IF a >= b THEN acc ELSE DigitsValue(s, a + 1, b, acc * 10 + DigitVal(s[a]))

RECURSIVE SkipSpaces(_, _)
SkipSpaces(s, p) ==
    IF p <= Len(s) /\ IsSpace(s[p]) THEN SkipSpaces(s, p + 1) ELSE p

\* A decimal num / 10^scale in lowest terms of the scale.
RECURSIVE Normalise(_, _)
Normalise(num, scale) ==
    IF scale > 0 /\ num % 10 = 0 THEN Normalise(num \div 10, scale - 1)
    ELSE [nan |-> FALSE, num |-> num, scale |-> scale]

NaN == [nan |-> TRUE, num |-> 0, scale |-> 0]

\* parseFloat(s): leading white space, a sign, the longest decimal literal
\* that starts the rest; NaN when there is none.  Exponents and Infinity,
\* which no cell of the model carries, are not read.
parseFloat(s) ==
    LET p0 == SkipSpaces(s, 1)
        neg == p0 <= Len(s) /\ s[p0] = "-"
        signed == p0 <= Len(s) /\ s[p0] \in {"-", "+"}
        p1 == IF signed THEN p0 + 1 ELSE p0
        p2 == DigitRunEnd(s, p1)
        dot == p2 <= Len(s) /\ s[p2] = "."
        p3 == IF dot THEN DigitRunEnd(s, p2 + 1) ELSE p2
        fracLen == IF dot THEN p3 - (p2 + 1) ELSE 0
        intVal == DigitsValue(s, p1, p2, 0)
        allVal == IF dot THEN DigitsValue(s, p2 + 1, p3, intVal) ELSE intVal
    IN  IF (p2 - p1) + fracLen = 0 THEN NaN
        ELSE Normalise(IF neg THEN 0 - allVal ELSE allVal, fracLen)

\* JSON.stringify of a number: NaN becomes null.
ToJsonNumber(x) == IF x.nan THEN Null ELSE Some(x)

----------------------------------------------------------------------------
(* The process *)

StartupOwner == [kind |-> "startup", date |-> Null]

TickOwner == [kind |-> "tick", date |-> Null]

NoResponse == [endpoint |-> "none", status |-> 0, error |-> "", date |-> Null,
               dates |-> Null, data |-> Null, curve |-> Null]

\* A variant of Init in which app.listen is called at module evaluation,
\* outside the startup IIFE.
InitListening ==
    /\ cachedData = Null
    /\ cachedDates = Null
    /\ phase = "starting"
    /\ listening = TRUE
    /\ timerActive = FALSE
    /\ \E now \in NowRange : runs = SetToBag({fetchAndParseCSV(StartupOwner, now, TRUE)})
    /\ lastTick = "none"
    /\ response = NoResponse
    /\ clock = DateAt(0)
    /\ monthsCall = Null
    /\ dateTrip = Null

\* Module evaluation: the caches are null (index.js:69-70) and the startup
\* IIFE has called fetchAndParseCSV(true) and awaits it (index.js:186).
Init ==
    /\ cachedData = Null
    /\ cachedDates = Null
    /\ phase = "starting"
    /\ listening = FALSE
    /\ timerActive = FALSE
    /\ \E now \in NowRange : runs = SetToBag({fetchAndParseCSV(StartupOwner, now, TRUE)})
    /\ lastTick = "none"
    /\ response = NoResponse
    /\ clock = DateAt(0)
    /\ monthsCall = Null
    /\ dateTrip = Null

Remove(bag, run) == bag (-) SetToBag({run})

Add(bag, run) == bag (+) SetToBag({run})

Replace(bag, run, run2) == Add(Remove(bag, run), run2)

\* The promise of month i of a run settles (index.js:76-88).
FetchSettle(run, i, outcome) ==
    /\ phase # "exited"
    /\ BagIn(run, runs)
    /\ i \in 1..Len(run.slots)
    /\ IsNull(run.slots[i])
    /\ runs' = Replace(runs, run,
                  [run EXCEPT !.slots = SettleSlot(@, i, outcome),
                              !.settled = Append(@, Settlement(i, outcome))])
    /\ UNCHANGED <<cachedData, cachedDates, phase, listening, timerActive, lastTick, response,
                   clock, monthsCall, dateTrip>>


\* A variant of StartupContinuation that drops the value of its await, as
\* the scheduler's callback does, and installs nothing.
StartupContinuationNoInstall(result) ==
    IF result.threw
    THEN [cachedData |-> cachedData, cachedDates |-> cachedDates,
          phase |-> "exited", listening |-> FALSE, timerActive |-> FALSE]
    ELSE [cachedData |-> cachedData, cachedDates |-> cachedDates,
          phase |-> "serving", listening |-> TRUE, timerActive |-> TRUE]

\* A variant of StartupContinuation whose catch only logs, and which then
\* starts the scheduler and listens.
StartupContinuationSurvivesFailure(result) ==
    IF result.threw
    THEN [cachedData |-> cachedData, cachedDates |-> cachedDates,
          phase |-> "serving", listening |-> TRUE, timerActive |-> TRUE]
    ELSE [cachedData |-> Some(result.records),
          cachedDates |-> Some(extractDates(result.records)),
          phase |-> "serving", listening |-> TRUE, timerActive |-> TRUE]

\* The startup IIFE after its await (index.js:186-197): install both caches,
\* start the scheduler and listen; or, in the catch, process.exit(1).
StartupContinuation(result) ==
    IF result.threw
    THEN [cachedData |-> cachedData, cachedDates |-> cachedDates,
          phase |-> "exited", listening |-> FALSE, timerActive |-> FALSE]
    ELSE [cachedData |-> Some(result.records),
          cachedDates |-> Some(extractDates(result.records)),
          phase |-> "serving", listening |-> TRUE, timerActive |-> TRUE]

\* A variant of TickContinuation that assigns the value of its await to
\* cachedData and leaves cachedDates as it is.
TickContinuationInstallsDataOnly(result) ==
    [cachedData |-> IF result.threw THEN cachedData ELSE Some(result.records),
     cachedDates |-> cachedDates,
     lastTick |-> IF result.threw THEN "error" ELSE "refreshed"]

\* A variant of TickContinuation whose catch drops both caches, so that the
\* next request fetches again.
TickContinuationClearsOnError(result) ==
    [cachedData |-> IF result.threw THEN Null ELSE cachedData,
     cachedDates |-> IF result.threw THEN Null ELSE cachedDates,
     lastTick |-> IF result.threw THEN "error" ELSE "refreshed"]

\* A variant of TickContinuation whose catch installs an empty dataset and
\* an empty date list.
TickContinuationEmptiesOnError(result) ==
    [cachedData |-> IF result.threw THEN Some(<<>>) ELSE cachedData,
     cachedDates |-> IF result.threw THEN Some(<<>>) ELSE cachedDates,
     lastTick |-> IF result.threw THEN "error" ELSE "refreshed"]

\* The scheduler's callback after its await (scheduler.js:17-21): the value
\* of the await is dropped; a line is logged.
TickContinuation(result) ==
    [cachedData |-> cachedData, cachedDates |-> cachedDates,
     lastTick |-> IF result.threw THEN "error" ELSE "refreshed"]

Reply(endpoint, status, error) ==
    [endpoint |-> endpoint, status |-> status, error |-> error, date |-> Null,
     dates |-> Null, data |-> Null, curve |-> Null]

\* A variant of DatesBody that drops cachedDates once it has answered, so
\* that the next request extracts the dates again.
DatesBodyDropsDates(data, dates) ==
    LET dates2 == IF IsNull(dates) THEN Some(extractDates(Val(data))) ELSE dates
    IN  [cachedData |-> data, cachedDates |-> Null,
         response |-> IF Len(Val(dates2)) = 0
                      THEN Reply("dates", 500, "No dates found in CSV.")
                      ELSE [Reply("dates", 200, "") EXCEPT !.dates = dates2]]

\* /api/dates from index.js:127 on, with cachedData set to data.
\* The caches it leaves and the response it sends.
DatesBody(data, dates) ==
    LET dates2 == IF IsNull(dates) THEN Some(extractDates(Val(data))) ELSE dates
    IN  [cachedData |-> data, cachedDates |-> dates2,
         response |-> IF Len(Val(dates2)) = 0
                      THEN Reply("dates", 500, "No dates found in CSV.")
                      ELSE [Reply("dates", 200, "") EXCEPT !.dates = dates2]]

\* cachedData.find(r => r['Date'] === date): null when there is none.
FindRecord(records, date) ==
    LET hits == {k \in 1..Len(records) : DateOf[records[k]] = date}
    IN  IF hits = {} THEN Null
        ELSE Some(records[CHOOSE k \in hits : \A h \in hits : k <= h])

\* A variant of RateOf that converts with Number(cell), without the test
\* for the empty string: Number('') is 0.
RateOfByNumber ==
    [ref \in 1..Len(Rows) |->
        [k \in 1..Len(Row(ref)) |->
            IF Row(ref)[k][2] # EmptyString
            THEN ToJsonNumber(parseFloat(Row(ref)[k][2]))
            ELSE Some(Normalise(0, 0))]]

\* record[maturity] !== '' ? parseFloat(record[maturity]) : null, for each
\* cell of each row object, as res.json sends it (NaN is sent as null).
RateOf ==
    [ref \in 1..Len(Rows) |->
        [k \in 1..Len(Row(ref)) |->
            IF Row(ref)[k][2] # EmptyString
            THEN ToJsonNumber(parseFloat(Row(ref)[k][2]))
            ELSE Null]]

HasKey(row, key) == \E k \in 1..Len(row) : row[k][1] = key

KeyIndex(row, key) == CHOOSE k \in 1..Len(row) : row[k][1] = key

\* The curve of index.js:153-156.  For a column the row lacks,
\* record[maturity] is undefined and parseFloat(undefined) is NaN.
Curve(record, maturities) ==
    [k \in 1..Len(maturities) |->
        [maturity |-> maturities[k],
         rate |-> IF HasKey(Row(record), maturities[k])
                  THEN RateOf[record][KeyIndex(Row(record), maturities[k])]
                  ELSE ToJsonNumber(NaN)]]

\* A variant of CurveMaturities that takes the columns of the first row of
\* the dataset.
CurveMaturitiesOfFirstRow(records, record) == extractMaturities(records)

\* const maturities = extractMaturities([record]) (index.js:149).
CurveMaturities(records, record) == extractMaturities(<<record>>)

\* A variant of YieldCurveBody that drops both caches when no row has the
\* date, so that the next request fetches again.
YieldCurveBodyDropsCachesOnMiss(data, dates, date) ==
    LET record == FindRecord(Val(data), date)
        maturities == CurveMaturities(Val(data), Val(record))
    IN  IF IsNull(record)
        THEN [cachedData |-> Null, cachedDates |-> Null,
              response |-> [Reply("yield-curve", 404, "Date not found")
                              EXCEPT !.date = Some(date)]]
        ELSE [cachedData |-> data, cachedDates |-> dates,
              response |->
                 IF Len(maturities) = 0
                 THEN [Reply("yield-curve", 500, "No maturity columns found for this date.")
                         EXCEPT !.date = Some(date)]
                 ELSE [Reply("yield-curve", 200, "") EXCEPT
                         !.date = Some(date),
                         !.curve = Some(Curve(Val(record), maturities))]]

\* /api/yield-curve from index.js:144 on, with cachedData set to data.
YieldCurveBody(data, dates, date) ==
    LET record == FindRecord(Val(data), date)
        maturities == CurveMaturities(Val(data), Val(record))
    IN  [cachedData |-> data, cachedDates |-> dates,
         response |->
            IF IsNull(record)
            THEN [Reply("yield-curve", 404, "Date not found") EXCEPT !.date = Some(date)]
            ELSE IF Len(maturities) = 0
            THEN [Reply("yield-curve", 500, "No maturity columns found for this date.")
                    EXCEPT !.date = Some(date)]
            ELSE [Reply("yield-curve", 200, "") EXCEPT
                    !.date = Some(date),
                    !.curve = Some(Curve(Val(record), maturities))]]

\* /api/yield-curves from index.js:168 on, with cachedData set to data.
YieldCurvesBody(data, dates) ==
    LET dates2 == IF IsNull(dates) THEN Some(extractDates(Val(data))) ELSE dates
    IN  [cachedData |-> data, cachedDates |-> dates2,
         response |-> IF Len(Val(data)) = 0
                      THEN Reply("yield-curves", 500, "No yield curve data available")
                      ELSE [Reply("yield-curves", 200, "") EXCEPT
                              !.data = data, !.dates = dates2]]

\* A handler whose `cachedData = await fetchAndParseCSV()` has settled
\* (index.js:126, 143, 167): the catch sends 500, else the handler goes on.
HandlerContinuation(owner, result) ==
    IF result.threw
    THEN [cachedData |-> cachedData, cachedDates |-> cachedDates,
          response |-> Reply(owner.kind, 500, "Parsed CSVs are empty.")]
    ELSE CASE owner.kind = "dates" -> DatesBody(Some(result.records), cachedDates)
           [] owner.kind = "yield-curve" ->
                YieldCurveBody(Some(result.records), cachedDates, Val(owner.date))
           [] OTHER -> YieldCurvesBody(Some(result.records), cachedDates)

\* Promise.all of a run resolves (index.js:90-97) and the caller's
\* continuation runs in the same turn of the event loop.
PromiseAllResolve(run) ==
    /\ phase # "exited"
    /\ BagIn(run, runs)
    /\ AllSettled(run)
    /\ LET owner == run.owner
           result == Aggregate(run)
       IN  CASE owner.kind = "startup" ->
                  LET c == StartupContinuation(result)
                  IN  /\ cachedData' = c.cachedData
                      /\ cachedDates' = c.cachedDates
                      /\ phase' = c.phase
                      /\ listening' = c.listening
                      /\ timerActive' = c.timerActive
                      /\ runs' = IF c.phase = "exited" THEN EmptyBag ELSE Remove(runs, run)
                      /\ UNCHANGED <<lastTick, response,
                                     clock, monthsCall, dateTrip>>
             [] owner.kind = "tick" ->
                  LET c == TickContinuation(result)
                  IN  /\ cachedData' = c.cachedData
                      /\ cachedDates' = c.cachedDates
                      /\ lastTick' = c.lastTick
                      /\ runs' = Remove(runs, run)
                      /\ UNCHANGED <<phase, listening, timerActive, response,
                                     clock, monthsCall, dateTrip>>
             [] OTHER ->
                  LET c == HandlerContinuation(owner, result)
                  IN  /\ cachedData' = c.cachedData
                      /\ cachedDates' = c.cachedDates
                      /\ response' = c.response
                      /\ runs' = Remove(runs, run)
                      /\ UNCHANGED <<phase, listening, timerActive, lastTick,
                                     clock, monthsCall, dateTrip>>

\* The interval timer fires (scheduler.js:14-17): the callback calls
\* fetchAndParseCSV(true), whatever is still in flight.
TimerTick(now) ==
    /\ phase = "serving"
    /\ timerActive
    /\ BagCardinality(runs) < MaxInFlight
    /\ runs' = Add(runs, fetchAndParseCSV(TickOwner, now, TRUE))
    /\ UNCHANGED <<cachedData, cachedDates, phase, listening, timerActive, lastTick, response,
                   clock, monthsCall, dateTrip>>

\* A handler at `if (!cachedData) cachedData = await fetchAndParseCSV()`
\* with cachedData null: it calls fetchAndParseCSV and awaits.
HandlerAwait(kind, date, now) ==
    /\ runs' = Add(runs, fetchAndParseCSV([kind |-> kind, date |-> date], now, FALSE))
    /\ UNCHANGED <<cachedData, cachedDates, phase, listening, timerActive, lastTick, response,
                   clock, monthsCall, dateTrip>>

HandlerReply(c) ==
    /\ cachedData' = c.cachedData
    /\ cachedDates' = c.cachedDates
    /\ response' = c.response
    /\ UNCHANGED <<phase, listening, timerActive, runs, lastTick,
                   clock, monthsCall, dateTrip>>

\* A variant of GetDates that awaits a fresh dataset when a call of
\* fetchAndParseCSV is in flight.
GetDatesAwaitsWhenRefreshing ==
    /\ listening
    /\ IF IsNull(cachedData) \/ runs # EmptyBag
       THEN \E now \in NowRange : HandlerAwait("dates", Null, now)
       ELSE HandlerReply(DatesBody(cachedData, cachedDates))

\* GET /api/dates (index.js:124-136).
GetDates ==
    /\ listening
    /\ IF IsNull(cachedData)
       THEN \E now \in NowRange : HandlerAwait("dates", Null, now)
       ELSE HandlerReply(DatesBody(cachedData, cachedDates))

\* The values of req.query.date: absent, empty, or a date label.
RequestDates == {Null, Some(EmptyString), Some(Date1), Some(Date2), Some(Date9)}

\* A variant of IsFalsyDate that tests `date === undefined`: the empty
\* string passes.
IsFalsyDateOnlyUndefined(date) == IsNull(date)

\* `!date`: undefined and '' are falsy.
IsFalsyDate(date) == IF IsNull(date) THEN TRUE ELSE Val(date) = EmptyString

\* GET /api/yield-curve (index.js:139-162).
GetYieldCurve(date) ==
    /\ listening
    /\ IF IsFalsyDate(date)
       THEN HandlerReply([cachedData |-> cachedData, cachedDates |-> cachedDates,
                          response |-> [Reply("yield-curve", 400, "Missing date param")
                                           EXCEPT !.date = date]])
       ELSE IF IsNull(cachedData)
       THEN \E now \in NowRange : HandlerAwait("yield-curve", date, now)
       ELSE HandlerReply(YieldCurveBody(cachedData, cachedDates, Val(date)))

\* GET /api/yield-curves (index.js:165-180).
GetYieldCurves ==
    /\ listening
    /\ IF IsNull(cachedData)
       THEN \E now \in NowRange : HandlerAwait("yield-curves", Null, now)
       ELSE HandlerReply(YieldCurvesBody(cachedData, cachedDates))

Next ==
    \/ \E run \in BagToSet(runs) : \E i \in 1..Len(run.slots) : \E o \in FetchOutcomes :
          FetchSettle(run, i, o)
    \/ \E run \in BagToSet(runs) : PromiseAllResolve(run)
    \/ \E now \in NowRange : TimerTick(now)
    \/ GetDates
    \/ \E date \in RequestDates : GetYieldCurve(date)
    \/ GetYieldCurves

Spec == Init /\ [][Next]_vars

\* What the event loop guarantees: once every promise of a Promise.all has
\* settled, the awaiting continuation runs, and the interval timer keeps
\* firing.  Nothing makes the remote source answer a fetch, nor a client
\* send a request.
Fairness ==
    /\ WF_vars(\E run \in BagToSet(runs) : PromiseAllResolve(run))
    /\ WF_vars(\E now \in NowRange : TimerTick(now))

FairSpec == Spec /\ Fairness

----------------------------------------------------------------------------
(* getAllMonths on its own: the clock and the calls *)

ClockIndex(now) == 12 * (now.year - StartYear) + now.month

ClockRange == {DateAt(k) : k \in -12..MaxClockIndex}

\* No process: only the clock and getAllMonths.
InitMonths ==
    /\ cachedData = Null
    /\ cachedDates = Null
    /\ phase = "starting"
    /\ listening = FALSE
    /\ timerActive = FALSE
    /\ runs = EmptyBag
    /\ lastTick = "none"
    /\ response = NoResponse
    /\ clock \in ClockRange
    /\ monthsCall = Null
    /\ dateTrip = Null

\* A month passes.
ClockAdvance ==
    /\ ClockIndex(clock) < MaxClockIndex
    /\ clock' = DateAt(ClockIndex(clock) + 1)
    /\ UNCHANGED <<cachedData, cachedDates, phase, listening, timerActive, runs,
                   lastTick, response, monthsCall, dateTrip>>

\* getAllMonths() is called (index.js:73) and returns.
GetAllMonthsCall ==
    /\ monthsCall' = Some([now |-> clock, months |-> getAllMonths(clock)])
    /\ UNCHANGED <<cachedData, cachedDates, phase, listening, timerActive, runs,
                   lastTick, response, clock, dateTrip>>

NextMonths ==
    \/ ClockAdvance
    \/ GetAllMonthsCall

MonthsSpec == InitMonths /\ [][NextMonths]_vars

----------------------------------------------------------------------------
(* The front end's date conversions, App.jsx (src/unnamed/part_000:94-131) *)

\* String.prototype.split(sep) for a one-character separator.
RECURSIVE Split(_, _)
Split(s, sep) ==
    IF \E p \in 1..Len(s) : s[p] = sep
    THEN LET p == CHOOSE q \in 1..Len(s) : s[q] = sep /\ \A r \in 1..(q - 1) : s[r] # sep
         IN  <<SubSeq(s, 1, p - 1)>> \o Split(SubSeq(s, p + 1, Len(s)), sep)
    ELSE <<s>>

\* String.prototype.padStart(len, fill) for a one-character fill.
RECURSIVE padStart(_, _, _)
padStart(s, len, fill) == IF Len(s) >= len THEN s ELSE padStart(<<fill>> \o s, len, fill)

\* /\d{4}-\d{2}-\d{2}/.test(d): unanchored, the match starts at some i.
TestIsoPattern(d) ==
    \E i \in 1..(Len(d) - 9) :
        /\ \A q \in {i, i + 1, i + 2, i + 3, i + 5, i + 6, i + 8, i + 9} : IsDigit(d[q])
        /\ d[i + 4] = "-"
        /\ d[i + 7] = "-"

\* toISO (part_000:94-99).  The labels of the model have three parts, so
\* mm, dd and yyyy are all defined.
toISO(d) ==
    IF TestIsoPattern(d) THEN d
    ELSE LET parts == Split(d, "/")
             mm == parts[1]
             dd == parts[2]
             yyyy == parts[3]
         IN  yyyy \o <<"-">> \o padStart(mm, 2, "0") \o <<"-">> \o padStart(dd, 2, "0")

\* A variant of toBackendDate that writes the day before the month.
toBackendDateDayFirst(d) ==
    IF d = EmptyString THEN EmptyString
    ELSE LET parts == Split(d, "-")
             yyyy == parts[1]
             mm == parts[2]
             dd == parts[3]
         IN  dd \o <<"/">> \o mm \o <<"/">> \o yyyy

\* toBackendDate (part_000:126-130).
toBackendDate(d) ==
    IF d = EmptyString THEN EmptyString
    ELSE LET parts == Split(d, "-")
             yyyy == parts[1]
             mm == parts[2]
             dd == parts[3]
         IN  mm \o <<"/">> \o dd \o <<"/">> \o yyyy

\* A date label as the upstream file may write it: month/day/year, the
\* month and the day zero-padded to two digits or not.
Label(m, d, y, padded) ==
    LET mm == IF padded THEN PadStart2(NumberToString(m)) ELSE NumberToString(m)
        dd == IF padded THEN PadStart2(NumberToString(d)) ELSE NumberToString(d)
    IN  mm \o <<"/">> \o dd \o <<"/">> \o NumberToString(y)

Labels ==
    {Label(m, d, y, padded) :
        m \in 1..12, d \in 1..31, y \in StartYear..MaxLabelYear, padded \in BOOLEAN}

\* No process: a label of data.dates arrives in the front end.
InitPicker ==
    /\ cachedData = Null
    /\ cachedDates = Null
    /\ phase = "starting"
    /\ listening = FALSE
    /\ timerActive = FALSE
    /\ runs = EmptyBag
    /\ lastTick = "none"
    /\ response = NoResponse
    /\ clock = DateAt(0)
    /\ monthsCall = Null
    /\ \E label \in Labels : dateTrip = Some([label |-> label, iso |-> Null, backend |-> Null])

\* fetchDates: isoDates = sorted.map(toISO) (part_000:100), the dates the
\* picker offers.
MapToISO ==
    /\ ~IsNull(dateTrip)
    /\ IsNull(Val(dateTrip).iso)
    /\ dateTrip' = Some([Val(dateTrip) EXCEPT !.iso = Some(toISO(Val(dateTrip).label))])
    /\ UNCHANGED <<cachedData, cachedDates, phase, listening, timerActive, runs,
                   lastTick, response, clock, monthsCall>>

\* The effect on selectedDate: the date parameter of the request for the
\* curve is toBackendDate(selectedDate) (part_000:131).
RequestCurve ==
    /\ ~IsNull(dateTrip)
    /\ ~IsNull(Val(dateTrip).iso)
    /\ IsNull(Val(dateTrip).backend)
    /\ dateTrip' = Some([Val(dateTrip) EXCEPT
                            !.backend = Some(toBackendDate(Val(Val(dateTrip).iso)))])
    /\ UNCHANGED <<cachedData, cachedDates, phase, listening, timerActive, runs,
                   lastTick, response, clock, monthsCall>>

NextPicker ==
    \/ MapToISO
    \/ RequestCurve

PickerSpec == InitPicker /\ [][NextPicker]_vars

----------------------------------------------------------------------------
(* Vocabulary of the properties *)

\* Promise.all of this run resolves in the step: it leaves the bag.
Resolved(run) ==
    /\ AllSettled(run)
    /\ CopiesIn(run, runs') < CopiesIn(run, runs)

\* The settlement of month i in the history of a run all of whose months
\* have settled.
EventOf(run, i) ==
    run.settled[CHOOSE k \in 1..Len(run.settled) : run.settled[k].month = i]

EventSet(run) == {run.settled[k] : k \in 1..Len(run.settled)}

\* The number of rows of the months before month i.
RECURSIVE RowsBefore(_, _)
RowsBefore(run, i) ==
    IF i <= 1 THEN 0
    ELSE RowsBefore(run, i - 1) + Len(EventOf(run, i - 1).records)

NoRows(run) == \A k \in 1..Len(run.settled) : run.settled[k].records = <<>>

\* How the caller of a run reports that fetchAndParseCSV threw: the startup
\* path exits, the tick logs the error, a handler answers 500.
FailureReported(owner) ==
    CASE owner.kind = "startup" -> phase' = "exited"
      [] owner.kind = "tick" -> lastTick' = "error"
      [] OTHER -> response'.status = 500

----------------------------------------------------------------------------
(* C1 *)

\* C1: in every step in which a scheduled tick's aggregation succeeds, the
\* caches served afterwards are the dataset that aggregation returned and
\* the dates extracted from it.
C1_TickInstallsItsSnapshot ==
    [][\A run \in BagToSet(runs) :
          (run.owner.kind = "tick" /\ Resolved(run) /\ ~Aggregate(run).threw)
          => /\ cachedData' = Some(Aggregate(run).records)
             /\ cachedDates' = Some(extractDates(Aggregate(run).records))]_vars

----------------------------------------------------------------------------
(* C2 *)

\* C2: in every step in which a call of fetchAndParseCSV ends with no row in
\* any month (every month failed, or gave none), the call throws, which its
\* caller reports, and cachedData and cachedDates are what they were when
\* the call was made, installed snapshot or not.
C2_NoRowsThrowsAndKeepsCache ==
    [][\A run \in BagToSet(runs) :
          (Resolved(run) /\ NoRows(run))
          => /\ FailureReported(run.owner)
             /\ cachedData' = run.before[1]
             /\ cachedDates' = run.before[2]]_vars

\* A scheduled call has thrown while a snapshot was installed.
C2_Witness ==
    /\ lastTick = "error"
    /\ phase = "serving"
    /\ ~IsNull(cachedData)
    /\ ~IsNull(cachedDates)

----------------------------------------------------------------------------
(* C3 *)

\* C3: whenever all months of a call have settled and at least one gave
\* rows, fetchAndParseCSV returns, without throwing, the rows of month 1,
\* then those of month 2, and so on, each month's rows in their own order;
\* the number of rows is the sum over the months, a failed month giving 0.
C3_ReturnsConcatenationInMonthOrder ==
    \A run \in BagToSet(runs) :
        (AllSettled(run) /\ ~NoRows(run))
        => LET n == Len(run.slots)
               res == Aggregate(run)
           IN  /\ ~res.threw
               /\ Len(res.records) = RowsBefore(run, n + 1)
               /\ \A i \in 1..n :
                     /\ EventOf(run, i).failed => Len(EventOf(run, i).records) = 0
                     /\ \A k \in 1..Len(EventOf(run, i).records) :
                           res.records[RowsBefore(run, i) + k] = EventOf(run, i).records[k]

\* A call whose two months gave one row and two rows: three rows are returned.
C3_Witness ==
    \E run \in BagToSet(runs) :
        /\ AllSettled(run)
        /\ Len(run.slots) = 2
        /\ EventOf(run, 1).records = <<1>>
        /\ EventOf(run, 2).records = <<2, 3>>
        /\ Aggregate(run).records = <<1, 2, 3>>

----------------------------------------------------------------------------
(* C4 *)

\* C4: two calls whose months ended with the same outcomes return the same
\* dataset, in whatever order the fetches of each completed.
C4_ResultIndependentOfCompletionOrder ==
    \A r1 \in BagToSet(runs) : \A r2 \in BagToSet(runs) :
        (AllSettled(r1) /\ AllSettled(r2) /\ EventSet(r1) = EventSet(r2))
        => Aggregate(r1) = Aggregate(r2)

\* Two calls with the same outcomes, rows in both months, whose fetches
\* completed in opposite orders.
C4_Witness ==
    \E r1 \in BagToSet(runs) : \E r2 \in BagToSet(runs) :
        /\ AllSettled(r1) /\ AllSettled(r2)
        /\ EventSet(r1) = EventSet(r2)
        /\ Len(r1.slots) >= 2
        /\ r1.settled[1].month = 1 /\ r2.settled[1].month = 2
        /\ EventOf(r1, 1).records # <<>>
        /\ EventOf(r1, 2).records # <<>>
        /\ EventOf(r1, 1).records # EventOf(r1, 2).records
        /\ ~Aggregate(r1).threw

----------------------------------------------------------------------------
(* C5 *)

\* C5: a month whose fetch or parse failed holds no rows and changes no
\* other month: every settled month holds the rows its own promise chain
\* ended with, every other month is still pending, and once all have settled
\* the call returns every row of the months that gave rows.
C5_FailureIsLocalToItsMonth ==
    \A run \in BagToSet(runs) :
        (\E k \in 1..Len(run.settled) : run.settled[k].failed)
        => /\ \A k \in 1..Len(run.settled) :
                 run.slots[run.settled[k].month] =
                    Some(IF run.settled[k].failed THEN <<>> ELSE run.settled[k].records)
           /\ \A i \in 1..Len(run.slots) :
                 (\A k \in 1..Len(run.settled) : run.settled[k].month # i)
                 => IsNull(run.slots[i])
           /\ (AllSettled(run) /\ ~NoRows(run))
              => /\ ~Aggregate(run).threw
                 /\ \A k \in 1..Len(run.settled) :
                       \A j \in 1..Len(run.settled[k].records) :
                          \E q \in 1..Len(Aggregate(run).records) :
                             Aggregate(run).records[q] = run.settled[k].records[j]

\* A call whose first month to settle failed and whose other month then gave
\* rows.
C5_Witness ==
    \E run \in BagToSet(runs) :
        /\ AllSettled(run)
        /\ Len(run.settled) = 2
        /\ run.settled[1].failed
        /\ run.settled[2].records # <<>>
        /\ ~Aggregate(run).threw

----------------------------------------------------------------------------
(* C6 *)

\* The least index of a row of records that carries the label.
FirstIndex(records, label) ==
    CHOOSE k \in 1..Len(records) :
        /\ DateOf[records[k]] = label
        /\ \A j \in 1..(k - 1) : DateOf[records[j]] # label

\* dates lists each Date label of records once, in order of first occurrence.
IsFirstSeenDedup(dates, records) ==
    /\ \A a \in 1..Len(dates) : \A b \in 1..Len(dates) : a # b => dates[a] # dates[b]
    /\ {dates[a] : a \in 1..Len(dates)} = {DateOf[records[k]] : k \in 1..Len(records)}
    /\ \A a \in 1..Len(dates) : \A b \in 1..Len(dates) :
          a < b => FirstIndex(records, dates[a]) < FirstIndex(records, dates[b])

\* C6: whenever a query handler can run, cachedDates is the first-seen-order
\* deduplication of the Date labels of the current cachedData, and the last
\* answer of /api/dates or /api/yield-curves carries the dates of that same
\* dataset.
C6_ServedSnapshotIsConsistent ==
    listening
    => /\ ~IsNull(cachedData)
       /\ ~IsNull(cachedDates)
       /\ IsFirstSeenDedup(Val(cachedDates), Val(cachedData))
       /\ (response.endpoint = "yield-curves" /\ response.status = 200)
          => /\ response.data = cachedData
             /\ IsFirstSeenDedup(Val(response.dates), Val(response.data))
       /\ (response.endpoint = "dates" /\ response.status = 200)
          => IsFirstSeenDedup(Val(response.dates), Val(cachedData))

\* After a scheduled refresh that succeeded, /api/yield-curves has answered
\* with a dataset in which two rows carry one date label.
C6_Witness ==
    /\ listening
    /\ lastTick = "refreshed"
    /\ response.endpoint = "yield-curves"
    /\ response.status = 200
    /\ Len(Val(response.data)) > Len(Val(response.dates))

----------------------------------------------------------------------------
(* C7 *)

\* C7: no call of fetchAndParseCSV is ever made by a query handler: every
\* call in flight was made by the startup path or by the scheduler, and
\* cachedData is set whenever a handler can run or has answered.
C7_HandlersNeverAggregate ==
    /\ \A run \in BagToSet(runs) : run.owner.kind \in {"startup", "tick"}
    /\ listening => ~IsNull(cachedData)
    /\ response # NoResponse => ~IsNull(cachedData)

\* /api/dates has answered while a scheduled refresh was in flight.
C7_Witness ==
    /\ response.endpoint = "dates"
    /\ response.status = 200
    /\ runs # EmptyBag

----------------------------------------------------------------------------
(* C8 *)

\* C8: the server listens only once the startup aggregation has returned
\* rows and cachedData and cachedDates have both been installed, and no
\* request has been answered before.
C8_ListensOnlyAfterStartupInstall ==
    /\ listening
       => /\ phase = "serving"
          /\ \A run \in BagToSet(runs) : run.owner.kind # "startup"
          /\ ~IsNull(cachedData)
          /\ ~IsNull(cachedDates)
          /\ Len(Val(cachedData)) > 0
    /\ response # NoResponse => (listening /\ phase = "serving")

\* The server listens, the scheduler is started and a curve has been served.
C8_Witness ==
    /\ listening
    /\ timerActive
    /\ response.endpoint = "yield-curve"
    /\ response.status = 200

----------------------------------------------------------------------------
(* C9 *)

\* C9: a startup aggregation that ends with no rows terminates the process;
\* a terminated process is not listening, has no timer, has served no query
\* and takes no further step.
C9_StartupFailureIsFatal ==
    [][/\ \A run \in BagToSet(runs) :
             (run.owner.kind = "startup" /\ Resolved(run) /\ NoRows(run))
             => phase' = "exited"
       /\ phase' = "exited"
          => /\ ~listening'
             /\ ~timerActive'
             /\ response' = NoResponse
             /\ runs' = EmptyBag
             /\ IsNull(cachedData')
       /\ phase = "exited" => UNCHANGED vars]_vars

\* The process has exited.
C9_Witness == phase = "exited"

----------------------------------------------------------------------------
(* C10 *)

\* The columns of a row other than Date that match the maturity pattern.
MaturityColumns(row) ==
    SelectSeq(Keys(row), LAMBDA key : key # DateKey /\ MatchesMaturity(key))

CurveKeys(curve) == [k \in 1..Len(curve) |-> curve[k].maturity]

----------------------------------------------------------------------------
(* C11 *)

\* The position of the decimal point of a cell, or 0.
PointOf(cell) ==
    IF \E p \in 1..Len(cell) : cell[p] = "."
    THEN CHOOSE p \in 1..Len(cell) : cell[p] = "."
    ELSE 0

\* The number the digits of a cell spell, the decimal point left out.
RECURSIVE DigitsNumber(_)
DigitsNumber(cell) ==
    IF cell = <<>> THEN 0
    ELSE LET front == SubSeq(cell, 1, Len(cell) - 1)
             last == cell[Len(cell)]
         IN  IF last = "." THEN DigitsNumber(front)
             ELSE 10 * DigitsNumber(front) + DigitVal(last)

RECURSIVE Pow10(_)
Pow10(n) == IF n = 0 THEN 1 ELSE 10 * Pow10(n - 1)

\* The rate x is the number the decimal cell spells.
IsValueOfCell(x, cell) ==
    LET fracLen == IF PointOf(cell) = 0 THEN 0 ELSE Len(cell) - PointOf(cell)
    IN  /\ ~x.nan
        /\ x.num * Pow10(fracLen) = DigitsNumber(cell) * Pow10(x.scale)

\* C11: in a curve served for a date, the rates are read from the first row
\* of the dataset whose Date is that date: the rate of a maturity is null
\* exactly when the cell of that row is the empty string, and is otherwise
\* the number the cell spells.
C11_RateIsNullOrCellValue ==
    (response.endpoint = "yield-curve" /\ response.status = 200)
    => \E k \in 1..Len(Val(cachedData)) :
          /\ DateOf[Val(cachedData)[k]] = Val(response.date)
          /\ \A j \in 1..(k - 1) : DateOf[Val(cachedData)[j]] # Val(response.date)
          /\ \A e \in 1..Len(Val(response.curve)) :
                LET entry == Val(response.curve)[e]
                    cell == Get(Row(Val(cachedData)[k]), entry.maturity)
                IN  /\ IsNull(entry.rate) <=> cell = EmptyString
                    /\ ~IsNull(entry.rate) => IsValueOfCell(Val(entry.rate), cell)

\* A curve with a null rate and a number has been served for a date that
\* two rows of the dataset carry, the first of them with an empty cell.
C11_Witness ==
    /\ response.endpoint = "yield-curve"
    /\ response.status = 200
    /\ response.date = Some(Date1)
    /\ Val(cachedData) = <<2, 3, 1>>
    /\ \E e \in 1..Len(Val(response.curve)) : IsNull(Val(response.curve)[e].rate)
    /\ \E e \in 1..Len(Val(response.curve)) : ~IsNull(Val(response.curve)[e].rate)

----------------------------------------------------------------------------
(* C12 *)

\* The step is the answer of /api/yield-curve, from the installed dataset,
\* to a request that carries a date.
AnswersCurveRequest ==
    /\ ~IsNull(cachedData)
    /\ runs' = runs
    /\ response'.endpoint = "yield-curve"
    /\ ~IsFalsyDate(response'.date)

\* C12: /api/yield-curve answers 404 with no curve, and leaves cachedData
\* and cachedDates as they are, when the date of the request is the Date of
\* no row of the dataset; it never answers 404 for a date of cachedDates.
C12_UnknownDateIsNotFound ==
    [][AnswersCurveRequest
       => LET date == Val(response'.date)
              data == Val(cachedData)
          IN  /\ (\A k \in 1..Len(data) : DateOf[data[k]] # date)
                 => /\ response'.status = 404
                    /\ IsNull(response'.curve)
                    /\ UNCHANGED <<cachedData, cachedDates>>
              /\ (\E k \in 1..Len(Val(cachedDates)) : Val(cachedDates)[k] = date)
                 => response'.status # 404]_vars

\* A request for a date that no row carries has been answered 404 while a
\* snapshot with other dates was installed.
C12_Witness ==
    /\ response.endpoint = "yield-curve"
    /\ response.status = 404
    /\ response.date = Some(Date9)
    /\ IsNull(response.curve)
    /\ ~IsNull(cachedData)
    /\ ~IsNull(cachedDates)
    /\ Len(Val(cachedDates)) > 0

----------------------------------------------------------------------------
(* C14 *)

\* C14: the list /api/dates answers with holds every Date label of the rows
\* of the dataset, each once, a label before another exactly when its first
\* row comes before the other's first row, also when rows of several months
\* carry one label.
C14_DatesAreDistinctInFirstSeenOrder ==
    (response.endpoint = "dates" /\ response.status = 200)
    => LET dates == Val(response.dates)
           data == Val(cachedData)
       IN  /\ \A k \in 1..Len(data) : \E a \in 1..Len(dates) : dates[a] = DateOf[data[k]]
           /\ \A a \in 1..Len(dates) : \E k \in 1..Len(data) : dates[a] = DateOf[data[k]]
           /\ \A a \in 1..Len(dates) : \A b \in 1..Len(dates) :
                 /\ (dates[a] = dates[b]) => (a = b)
                 /\ (a < b) <=> (FirstIndex(data, dates[a]) < FirstIndex(data, dates[b]))

\* /api/dates has answered with two dates from a dataset of three rows, in
\* which the first row, of one month, and the last, of the next month,
\* carry the same date.
C14_Witness ==
    /\ response.endpoint = "dates"
    /\ response.status = 200
    /\ Val(cachedData) = <<1, 2, 3>>
    /\ DateOf[1] = DateOf[3]
    /\ Val(response.dates) = <<Date1, Date2>>

----------------------------------------------------------------------------
(* C15 *)

\* The snapshot a call of fetchAndParseCSV that returned gives: its dataset
\* and the dates extracted from it.
SnapshotOf(run) ==
    <<Some(Aggregate(run).records), Some(extractDates(Aggregate(run).records))>>

\* A scheduled call all of whose months have settled, with rows.
IsCompletingTick(run) ==
    /\ run.owner.kind = "tick"
    /\ AllSettled(run)
    /\ ~Aggregate(run).threw

\* C15: when a scheduled call resolves with rows while another scheduled
\* call, in flight together with it and all of whose months have settled
\* with rows, has still to resolve, then once the other has resolved as well
\* cachedData and cachedDates are the dataset and the dates of one of the
\* two calls, both of the same call.
C15_OverlappingRefreshesLeaveOneSnapshot ==
    [][\A first \in BagToSet(runs) : \A second \in BagToSet(runs') :
          (IsCompletingTick(first) /\ Resolved(first) /\ IsCompletingTick(second))
          => LET end == TickContinuation(Aggregate(second))'
             IN  <<end.cachedData, end.cachedDates>>
                    \in {SnapshotOf(first), SnapshotOf(second)}]_vars

----------------------------------------------------------------------------
(* C16 *)

\* The scheduled calls of fetchAndParseCSV that have not resolved.
TicksInFlight == {run \in BagToSet(runs) : run.owner.kind = "tick"}

\* C16: at most one scheduled refresh is in flight at any time: no tick
\* calls fetchAndParseCSV while the call of an earlier tick has not
\* resolved.
C16_AtMostOneRefreshInFlight ==
    /\ \A a \in TicksInFlight : \A b \in TicksInFlight : a = b
    /\ \A a \in TicksInFlight : CopiesIn(a, runs) <= 1

----------------------------------------------------------------------------
(* C17 *)

\* C17: a call of fetchAndParseCSV that has started completes in the end,
\* by returning or by throwing, whether the remote source answers every
\* fetch or not; stated for the startup call, which the process awaits
\* before it serves or exits.
C17_StartedAggregationCompletes == (phase = "starting") ~> (phase # "starting")

----------------------------------------------------------------------------
(* C18 *)

\* C18: in every step in which a scheduled call of fetchAndParseCSV throws,
\* the tick's catch logs the error and nothing else happens: cachedData and
\* cachedDates stay the installed snapshot, the process goes on serving and
\* listening, the timer stays armed, and the other calls in flight stay.
C18_FailedRefreshIsNotFatal ==
    [][\A run \in BagToSet(runs) :
          (run.owner.kind = "tick" /\ Resolved(run) /\ Aggregate(run).threw)
          => /\ lastTick' = "error"
             /\ UNCHANGED <<cachedData, cachedDates, response>>
             /\ ~IsNull(cachedData')
             /\ ~IsNull(cachedDates')
             /\ phase' = "serving"
             /\ listening'
             /\ timerActive'
             /\ runs' = Remove(runs, run)]_vars

\* A scheduled refresh has failed, queries are answered from the snapshot
\* and a tick's call that has fetched rows is about to return.
C18_Witness ==
    /\ lastTick = "error"
    /\ phase = "serving"
    /\ listening
    /\ timerActive
    /\ response.status = 200
    /\ \E run \in BagToSet(runs) : IsCompletingTick(run)

----------------------------------------------------------------------------
(* C19 *)

\* The number a month token spells: 100 * year + month.
TokenNumber(token) == DigitsNumber(token)

\* C19: for a clock in any month, getAllMonths returns one token for each
\* calendar month from January 2025 to the clock's month, both included, and
\* no other: none when the clock is before January 2025; the i-th token is
\* six digits, the year then the month from 01 to 12, of the i-th month
\* counted from January 2025, so that the tokens ascend strictly, without a
\* gap or a repeat where the year changes.
C19_OneTokenPerMonthSinceJanuary2025 ==
    ~IsNull(monthsCall)
    => LET now == Val(monthsCall).now
           months == Val(monthsCall).months
           count == 12 * (now.year - 2025) + now.month + 1
       IN  /\ Len(months) = IF count > 0 THEN count ELSE 0
           /\ \A i \in 1..Len(months) :
                 /\ Len(months[i]) = 6
                 /\ \A p \in 1..6 : IsDigit(months[i][p])
                 /\ TokenNumber(months[i]) \div 100 = 2025 + ((i - 1) \div 12)
                 /\ TokenNumber(months[i]) % 100 = ((i - 1) % 12) + 1
           /\ \A i \in 1..(Len(months) - 1) :
                 /\ TokenNumber(months[i]) < TokenNumber(months[i + 1])
                 /\ TokenNumber(months[i + 1]) - TokenNumber(months[i]) \in {1, 89}
           /\ count > 0
              => /\ months[1] = <<"2", "0", "2", "5", "0", "1">>
                 /\ TokenNumber(months[count]) = 100 * now.year + now.month + 1

\* getAllMonths has returned, in 2027, a list that goes through two changes
\* of year.
C19_Witness ==
    /\ ~IsNull(monthsCall)
    /\ Val(monthsCall).now.year = 2027
    /\ Val(monthsCall).months[12] = <<"2", "0", "2", "5", "1", "2">>
    /\ Val(monthsCall).months[13] = <<"2", "0", "2", "6", "0", "1">>
    /\ Val(monthsCall).months[25] = <<"2", "0", "2", "7", "0", "1">>

----------------------------------------------------------------------------
(* C20 *)

\* The step sends an answer made from the cachedData and cachedDates
\* installed before it, and leaves them and the calls in flight as they are.
AnswersFromSnapshot ==
    /\ runs' = runs
    /\ UNCHANGED <<cachedData, cachedDates>>
    /\ response'.status # 0
    /\ (response'.endpoint = "dates" /\ response'.status = 200)
       => response'.dates = cachedDates
    /\ (response'.endpoint = "yield-curves" /\ response'.status = 200)
       => (response'.data = cachedData /\ response'.dates = cachedDates)
    /\ (response'.endpoint = "yield-curve" /\ response'.status = 200)
       => \E k \in 1..Len(Val(cachedData)) :
             DateOf[Val(cachedData)[k]] = Val(response'.date)

\* The step is the run of a query handler.
QueryStep ==
    \/ GetDates
    \/ \E date \in RequestDates : GetYieldCurve(date)
    \/ GetYieldCurves

\* C20: whatever calls of fetchAndParseCSV are in flight and whatever
\* fetches are pending, the run of a query handler is one step that sends
\* its answer from the snapshot installed at that moment: it awaits no call
\* and starts none.
C20_QueriesNeverWaitForARefresh == [][QueryStep => AnswersFromSnapshot]_vars

\* The dataset has been served while a scheduled call had a fetch pending,
\* none of its months settled yet.
C20_Witness ==
    /\ response.endpoint = "yield-curves"
    /\ response.status = 200
    /\ response.data = cachedData
    /\ \E run \in BagToSet(runs) :
          /\ run.owner.kind = "tick"
          /\ run.settled = <<>>
          /\ \E i \in 1..Len(run.slots) : IsNull(run.slots[i])

----------------------------------------------------------------------------
(* C21 *)

\* C21: a step that changes cachedData or cachedDates is the continuation
\* of a call of fetchAndParseCSV made by the startup path or by the
\* scheduler, and no run of a query handler changes either.
C21_OnlyStartupOrSchedulerWritesCaches ==
    [][/\ (cachedData' # cachedData \/ cachedDates' # cachedDates)
          => \E run \in BagToSet(runs) :
                /\ run.owner.kind \in {"startup", "tick"}
                /\ Resolved(run)
       /\ QueryStep => (cachedData' = cachedData /\ cachedDates' = cachedDates)]_vars

\* The three handlers have run, the last of them /api/dates, after a
\* scheduled refresh, and the caches are the installed snapshot.
C21_Witness ==
    /\ response.endpoint = "dates"
    /\ response.status = 200
    /\ response.dates = cachedDates
    /\ lastTick = "refreshed"
    /\ cachedDates = Some(extractDates(Val(cachedData)))

----------------------------------------------------------------------------
(* C22 *)

\* C22: /api/yield-curve answers a request without a date parameter, or
\* with an empty one, with 400 and no curve, whatever the caches hold: it
\* calls no fetchAndParseCSV, and leaves the caches and the calls in flight
\* as they are; 400 is sent for no other request.
C22_MissingDateIsBadRequest ==
    [][/\ \A date \in {Null, Some(EmptyString)} :
             GetYieldCurve(date)
             => /\ response'.endpoint = "yield-curve"
                /\ response'.status = 400
                /\ IsNull(response'.curve)
                /\ runs' = runs
                /\ UNCHANGED <<cachedData, cachedDates>>
       /\ \A date \in RequestDates \ {Null, Some(EmptyString)} :
             GetYieldCurve(date) => response'.status # 400]_vars

\* A request with an empty date parameter has been answered 400 while a
\* snapshot was installed and a scheduled call was in flight.
C22_Witness ==
    /\ response.endpoint = "yield-curve"
    /\ response.status = 400
    /\ response.date = Some(EmptyString)
    /\ ~IsNull(cachedData)
    /\ runs # EmptyBag

----------------------------------------------------------------------------
(* C23 *)

\* The label is MM/DD/YYYY with two digits for the month and for the day.
IsPaddedLabel(d) ==
    /\ Len(d) = 10
    /\ d[3] = "/"
    /\ d[6] = "/"
    /\ \A p \in {1, 2, 4, 5, 7, 8, 9, 10} : IsDigit(d[p])

\* C23: for a date label d in zero-padded MM/DD/YYYY form, the date the
\* picker offers, toISO(d), is YYYY-MM-DD with the same digits, and the
\* date parameter made of it, toBackendDate(toISO(d)), is d itself.
C23_DateConversionsRoundTrip ==
    (~IsNull(dateTrip) /\ IsPaddedLabel(Val(dateTrip).label))
    => LET d == Val(dateTrip).label
           iso == Val(dateTrip).iso
           backend == Val(dateTrip).backend
       IN  /\ ~IsNull(iso)
              => Val(iso) = SubSeq(d, 7, 10) \o <<"-">> \o SubSeq(d, 1, 2)
                               \o <<"-">> \o SubSeq(d, 4, 5)
           /\ ~IsNull(backend) => Val(backend) = d

\* The label 01/02/2025 has gone to the picker as 2025-01-02 and come back
\* as 01/02/2025, the Date of Row1.
C23_Witness ==
    /\ ~IsNull(dateTrip)
    /\ Val(dateTrip).label = Date1
    /\ Val(dateTrip).iso = Some(<<"2", "0", "2", "5", "-", "0", "1", "-", "0", "2">>)
    /\ Val(dateTrip).backend = Some(DateOf[1])

----------------------------------------------------------------------------
(* C24 *)

\* C24: while the server listens, after any ticks, failed or not, and any
\* queries, cachedData holds at least one row and cachedDates at least one
\* date, and no answer of /api/dates or of /api/yield-curves is the 500 of
\* their 'No dates found in CSV.' and 'No yield curve data available'
\* branches.
C24_ServedCachesAreNeverEmpty ==
    /\ listening
       => /\ ~IsNull(cachedData)
          /\ ~IsNull(cachedDates)
          /\ Val(cachedData) # <<>>
          /\ Val(cachedDates) # <<>>
    /\ response.endpoint \in {"dates", "yield-curves"}
       => /\ response.status = 200
          /\ response.error = ""
          /\ Val(response.dates) # <<>>

\* After a scheduled refresh that failed, /api/dates has answered 200 with
\* its dates while another scheduled call was in flight.
C24_Witness ==
    /\ listening
    /\ lastTick = "error"
    /\ response.endpoint = "dates"
    /\ response.status = 200
    /\ Len(Val(response.dates)) > 0
    /\ \E run \in BagToSet(runs) : run.owner.kind = "tick"

----------------------------------------------------------------------------
(* C25 *)

====
